---- MODULE Spec2Model ----
(***************************************************************************)
(* A model of scrapegraph_mcp/server.py: the ScapeGraphClient methods      *)
(* (request construction, status check, response parsing) and the eight    *)
(* tool functions registered by create_server (session configuration,      *)
(* input normalisation, exception handling, client shutdown).              *)
(*                                                                         *)
(* A Python value is a record: t is its type, and one field per kind of    *)
(* payload holds its value (the other fields are at their defaults), so    *)
(* that any two values can be compared.  Strings that the program parses   *)
(* as JSON are tuples of one-character strings (chars); strings it only    *)
(* forwards (URLs, prompts, ids) are TLA+ strings (s); the text of an      *)
(* exception is the sequence of its fragments (msg).                       *)
(***************************************************************************)
EXTENDS Integers, Sequences, FiniteSets, TLC

----------------------------------------------------------------------------
(* Python values *)

Py(t, n, b, s, chars, items, pairs, msg) ==
    [t |-> t, n |-> n, b |-> b, s |-> s, chars |-> chars, items |-> items,
     pairs |-> pairs, msg |-> msg]
PyNone == Py("NoneType", 0, FALSE, "", <<>>, <<>>, <<>>, <<>>)
PyInt(n) == Py("int", n, FALSE, "", <<>>, <<>>, <<>>, <<>>)
PyFloat(n) == Py("float", n, FALSE, "", <<>>, <<>>, <<>>, <<>>)
PyBool(b) == Py("bool", 0, b, "", <<>>, <<>>, <<>>, <<>>)
PyStr(s) == Py("str", 0, FALSE, s, <<>>, <<>>, <<>>, <<>>)
PyText(chars) == Py("str", 0, FALSE, "", chars, <<>>, <<>>, <<>>)
\* str(e), f"... {str(e)}"
PyMsg(msg) == Py("str", 0, FALSE, "", <<>>, <<>>, <<>>, msg)
PyList(items) == Py("list", 0, FALSE, "", <<>>, items, <<>>, <<>>)
\* a dict is the sequence of its pairs <<key, value>> in insertion order
PyDict(pairs) == Py("dict", 0, FALSE, "", <<>>, <<>>, pairs, <<>>)

IsNone(x) == x.t = "NoneType"
IsList(x) == x.t = "list"
IsDict(x) == x.t = "dict"
IsStr(x) == x.t = "str"

----------------------------------------------------------------------------
(* The state: the last tool invocation (its arguments, what the remote     *)
(* service did with its request, and what the invocation did), the remote  *)
(* service's crawl job, and the interpreter the server runs on.  The       *)
(* server itself keeps nothing between invocations.                        *)

VARIABLES last, job, interpreter
vars == <<last, job, interpreter>>

----------------------------------------------------------------------------
(* json.loads on the JSON subset: objects, arrays, strings without         *)
(* escapes, non-negative integers without fraction or exponent, null,      *)
(* true, false, blanks between tokens.  The decoder descends once per      *)
(* nested array or object and gives up with RecursionError when the        *)
(* interpreter's recursion limit is passed; the limit is scaled down here. *)

RecursionLimit == 3

Whitespace == {" "}
DigitChars == <<"0", "1", "2", "3", "4", "5", "6", "7", "8", "9">>
IsDigit(c) == \E d \in 1..10 : DigitChars[d] = c
DigitValue(c) == (CHOOSE d \in 1..10 : DigitChars[d] = c) - 1

\* a result of the decoder; a failure keeps what the decoder says of it
\* and the index of the character it stopped at, counted from 0 (s[i] is
\* character i - 1 of the text)
ParseFail(why, at) == [ok |-> FALSE, val |-> PyNone, pos |-> 0, deep |-> FALSE, why |-> why, at |-> at]
ParseDeep(why) == [ok |-> FALSE, val |-> PyNone, pos |-> 0, deep |-> TRUE, why |-> why, at |-> 0]
ParseOk(v, p) == [ok |-> TRUE, val |-> v, pos |-> p, deep |-> FALSE, why |-> "", at |-> 0]

RECURSIVE SkipWs(_, _)
SkipWs(s, i) ==
    IF i <= Len(s) /\ s[i] \in Whitespace THEN SkipWs(s, i + 1) ELSE i

RECURSIVE StringEnd(_, _)
\* index of the closing quote at or after i, 0 when the string never ends
StringEnd(s, i) ==
    IF i > Len(s) THEN 0
    ELSE IF s[i] = "\"" THEN i
    ELSE StringEnd(s, i + 1)

RECURSIVE NumberEnd(_, _)
NumberEnd(s, i) ==
    IF i <= Len(s) /\ IsDigit(s[i]) THEN NumberEnd(s, i + 1) ELSE i

RECURSIVE DigitsValue(_)
DigitsValue(ds) ==
    IF ds = <<>> THEN 0
    ELSE 10 * DigitsValue(SubSeq(ds, 1, Len(ds) - 1)) + DigitValue(ds[Len(ds)])

StartsWith(s, i, w) ==
    /\ i + Len(w) - 1 <= Len(s)
    /\ SubSeq(s, i, i + Len(w) - 1) = w

\* d[key] = value on a dict: a repeated key keeps its place and takes the new value
DictSet(pairs, key, value) ==
    IF \E n \in DOMAIN pairs : pairs[n][1] = key
    THEN [n \in DOMAIN pairs |->
            IF pairs[n][1] = key THEN <<key, value>> ELSE pairs[n]]
    ELSE Append(pairs, <<key, value>>)

\* a local variable of the decoder: v is computed once and F reads it
With(v, F(_)) == CHOOSE out \in {F(x) : x \in {v}} : TRUE

ParseString(s, i) ==
    With(StringEnd(s, i + 1), LAMBDA e :
        IF e = 0 THEN ParseFail("Unterminated string starting at", i - 1)
        ELSE ParseOk(PyText(SubSeq(s, i + 1, e - 1)), e + 1))

ParseNumber(s, i) ==
    IF s[i] = "0" THEN ParseOk(PyInt(0), i + 1)
    ELSE LET e == NumberEnd(s, i)
         IN  ParseOk(PyInt(DigitsValue(SubSeq(s, i, e - 1))), e)

RECURSIVE ParseValue(_, _, _), ParseElements(_, _, _, _), ParseMembers(_, _, _, _)
RECURSIVE AfterElement(_, _, _, _), AfterMember(_, _, _, _), MemberValue(_, _, _, _, _)

\* the JSON value starting at s[i], d arrays and objects deep; blanks
\* before it are already skipped
ParseValue(s, i, d) ==
    IF i > Len(s) THEN ParseFail("Expecting value", i - 1)
    ELSE IF s[i] = "\"" THEN ParseString(s, i)
    ELSE IF s[i] = "[" /\ d >= RecursionLimit
        THEN ParseDeep(" while decoding a JSON array from a unicode string")
    ELSE IF s[i] = "{" /\ d >= RecursionLimit
        THEN ParseDeep(" while decoding a JSON object from a unicode string")
    ELSE IF s[i] = "[" THEN
        LET j == SkipWs(s, i + 1)
        IN  IF j <= Len(s) /\ s[j] = "]"
            THEN ParseOk(PyList(<<>>), j + 1)
            ELSE ParseElements(s, j, <<>>, d + 1)
    ELSE IF s[i] = "{" THEN
        LET j == SkipWs(s, i + 1)
        IN  IF j <= Len(s) /\ s[j] = "}"
            THEN ParseOk(PyDict(<<>>), j + 1)
            ELSE ParseMembers(s, j, <<>>, d + 1)
    ELSE IF StartsWith(s, i, <<"n", "u", "l", "l">>) THEN ParseOk(PyNone, i + 4)
    ELSE IF StartsWith(s, i, <<"t", "r", "u", "e">>) THEN ParseOk(PyBool(TRUE), i + 4)
    ELSE IF StartsWith(s, i, <<"f", "a", "l", "s", "e">>)
        THEN ParseOk(PyBool(FALSE), i + 5)
    ELSE IF IsDigit(s[i]) THEN ParseNumber(s, i)
    ELSE ParseFail("Expecting value", i - 1)

\* the interpreter that runs the server: CPython from 3.13 on reports a
\* comma in front of the closing bracket as such, at the comma; earlier
\* versions go on and report the value or name they miss after it
Interpreters == {"CPython before 3.13", "CPython 3.13"}
ReportsTrailingComma == interpreter = "CPython 3.13"
TrailingComma(s, k, closing) ==
    /\ ReportsTrailingComma
    /\ SkipWs(s, k + 1) <= Len(s)
    /\ s[SkipWs(s, k + 1)] = closing

\* what follows an element of an array: "]", or "," and the next element
AfterElement(s, k, acc, d) ==
    IF k <= Len(s) /\ s[k] = "]" THEN ParseOk(PyList(acc), k + 1)
    ELSE IF k <= Len(s) /\ s[k] = "," THEN
        IF TrailingComma(s, k, "]")
        THEN ParseFail("Illegal trailing comma before end of array", k - 1)
        ELSE ParseElements(s, SkipWs(s, k + 1), acc, d)
    ELSE ParseFail("Expecting ',' delimiter", k - 1)

\* the elements of an array from s[i] on, up to and including its "]"
ParseElements(s, i, acc, d) ==
    With(ParseValue(s, i, d), LAMBDA r :
        IF ~r.ok THEN r
        ELSE With(Append(acc, r.val), LAMBDA items :
                AfterElement(s, SkipWs(s, r.pos), items, d)))

\* what follows a member of an object: "}", or "," and the next member
AfterMember(s, k, acc, d) ==
    IF k <= Len(s) /\ s[k] = "}" THEN ParseOk(PyDict(acc), k + 1)
    ELSE IF k <= Len(s) /\ s[k] = "," THEN
        IF TrailingComma(s, k, "}")
        THEN ParseFail("Illegal trailing comma before end of object", k - 1)
        ELSE ParseMembers(s, SkipWs(s, k + 1), acc, d)
    ELSE ParseFail("Expecting ',' delimiter", k - 1)

\* the value of the member named key, after its ":" at s[c]
MemberValue(s, c, key, acc, d) ==
    IF c > Len(s) \/ s[c] # ":" THEN ParseFail("Expecting ':' delimiter", c - 1)
    ELSE With(ParseValue(s, SkipWs(s, c + 1), d), LAMBDA r :
            IF ~r.ok THEN r
            ELSE With(DictSet(acc, key, r.val), LAMBDA pairs :
                    AfterMember(s, SkipWs(s, r.pos), pairs, d)))

\* the members of an object from s[i] on, up to and including its "}"
ParseMembers(s, i, acc, d) ==
    IF i > Len(s) \/ s[i] # "\""
    THEN ParseFail("Expecting property name enclosed in double quotes", i - 1)
    ELSE With(ParseString(s, i), LAMBDA key :
            IF ~key.ok THEN key
            ELSE MemberValue(s, SkipWs(s, key.pos), key.val.chars, acc, d))

----------------------------------------------------------------------------
(* Exceptions and their messages.  str(e) is a sequence of fragments: the  *)
(* literal pieces of the format string and the values formatted into it.   *)

Fragment(t, s, n, chars) == [t |-> t, s |-> s, n |-> n, chars |-> chars]
Lit(s) == Fragment("lit", s, 0, <<>>)
Num(n) == Fragment("num", "", n, <<>>)
Txt(chars) == Fragment("text", "", 0, chars)

Exc(cls, msg) == [cls |-> cls, msg |-> msg]
NoExc == Exc("none", <<>>)

\* the classes an exception of class cls is an instance of
Bases(cls) ==
    CASE cls = "JSONDecodeError" -> {"JSONDecodeError", "ValueError", "Exception"}
      [] cls = "UnicodeDecodeError" ->
            {"UnicodeDecodeError", "UnicodeError", "ValueError", "Exception"}
      [] cls = "HTTPStatusError" -> {"HTTPStatusError", "HTTPError", "Exception"}
      [] cls = "ReadTimeout" ->
            {"ReadTimeout", "TimeoutException", "TransportError", "RequestError",
             "HTTPError", "Exception"}
      [] cls = "ConnectTimeout" ->
            {"ConnectTimeout", "TimeoutException", "TransportError",
             "RequestError", "HTTPError", "Exception"}
      [] cls = "ConnectError" ->
            {"ConnectError", "NetworkError", "TransportError", "RequestError",
             "HTTPError", "Exception"}
      [] cls = "ReadError" ->
            {"ReadError", "NetworkError", "TransportError", "RequestError",
             "HTTPError", "Exception"}
      [] cls = "RemoteProtocolError" ->
            {"RemoteProtocolError", "ProtocolError", "TransportError",
             "RequestError", "HTTPError", "Exception"}
      [] cls = "RecursionError" -> {"RecursionError", "RuntimeError", "Exception"}
      [] cls \in {"ValueError", "AttributeError", "Exception"} -> {cls, "Exception"}

IsInstance(exc, cls) == cls \in Bases(exc.cls)

\* str(e) of json.JSONDecodeError on a text of one line, and of the
\* RecursionError of the decoder
JSONDecodeMsg(why, at) == <<Lit(why), Lit(": line 1 column "), Num(at + 1), Lit(" (char "), Num(at), Lit(")")>>
RecursionMsg(why) == <<Lit("maximum recursion depth exceeded"), Lit(why)>>

\* json.loads(s): the value, or the exception raised; characters after
\* the value and its trailing blanks are "Extra data"
JsonDecoded(s, r) ==
    IF r.deep THEN [ok |-> FALSE, val |-> PyNone, exc |-> Exc("RecursionError", RecursionMsg(r.why))]
    ELSE IF ~r.ok THEN [ok |-> FALSE, val |-> PyNone, exc |-> Exc("JSONDecodeError", JSONDecodeMsg(r.why, r.at))]
    ELSE With(SkipWs(s, r.pos), LAMBDA end :
            IF end # Len(s) + 1
            THEN [ok |-> FALSE, val |-> PyNone, exc |-> Exc("JSONDecodeError", JSONDecodeMsg("Extra data", end - 1))]
            ELSE [ok |-> TRUE, val |-> r.val, exc |-> NoExc])
JsonLoads(s) == With(ParseValue(s, SkipWs(s, 1), 0), LAMBDA r : JsonDecoded(s, r))

----------------------------------------------------------------------------
(* The remote service, as the client sees it: it answers a request with a  *)
(* status and a body text, or the transport fails.                         *)

DefaultTimeout == 120

NoReaction == [kind |-> "none", status |-> 0, text |-> <<>>]
Response(status, text) == [kind |-> "response", status |-> status, text |-> text]
TransportFailure(kind) == [kind |-> kind, status |-> 0, text |-> <<>>]

\* {"r":1}
BodyObject == <<"{", "\"", "r", "\"", ":", "1", "}">>
\* {"r":1 : an answer cut short
BodyTruncated == <<"{", "\"", "r", "\"", ":", "1">>
\* {"a":{"a":{"a":{"a":{"a":{"a":1}}}}}} : JSON nested deeper than the
\* decoder goes
BodyDeepMember == <<"{", "\"", "a", "\"", ":">>
BodyDeep == BodyDeepMember \o BodyDeepMember \o BodyDeepMember \o BodyDeepMember \o BodyDeepMember \o BodyDeepMember \o <<"1", "}", "}", "}", "}", "}", "}">>
\* a body that is no JSON (an HTML error page, an empty 204 body)
BodyNotJson == <<"<", "h", "1", ">">>
BodyEmpty == <<>>
\* {"status":"running"} and {"status":"completed"}
BodyStatus(st) ==
    <<"{", "\"", "s", "t", "a", "t", "u", "s", "\"", ":", "\"">> \o st \o <<"\"", "}">>
StatusText(st) ==
    CASE st = "pending" -> <<"p", "e", "n", "d", "i", "n", "g">>
      [] st = "running" -> <<"r", "u", "n", "n", "i", "n", "g">>
      [] st = "completed" -> <<"c", "o", "m", "p", "l", "e", "t", "e", "d">>

Reactions ==
    {Response(200, BodyObject), Response(200, BodyNotJson),
     Response(200, BodyTruncated), Response(200, BodyDeep),
     Response(201, BodyObject), Response(204, BodyEmpty),
     Response(302, BodyNotJson), Response(404, BodyObject),
     Response(404, BodyNotJson), Response(500, BodyNotJson),
     TransportFailure("timeout"), TransportFailure("connect_timeout"),
     TransportFailure("connect")}

Request(method, path, key, body, timeout) ==
    [method |-> method, path |-> path, key |-> key, body |-> body,
     timeout |-> timeout]

\* what a client method did: the requests it issued, and its return value
\* or the exception it raised
Returned(sent, val) == [sent |-> sent, raised |-> FALSE, exc |-> NoExc, val |-> val]
Raised(sent, exc) == [sent |-> sent, raised |-> TRUE, exc |-> exc, val |-> PyNone]

\* response.json()
ResponseJson(sent, resp) ==
    LET r == JsonLoads(resp.text)
    IN  IF r.ok THEN Returned(sent, r.val) ELSE Raised(sent, r.exc)

\* self.client.post / self.client.get failing in the transport: a read
\* timeout, a connect timeout, or a refused connection (the message of
\* ConnectError is the text of the OS error)
TransportError(sent, reaction) ==
    IF reaction.kind = "timeout"
    THEN Raised(sent, Exc("ReadTimeout", <<Lit("The read operation timed out")>>))
    ELSE IF reaction.kind = "connect_timeout"
    THEN Raised(sent, Exc("ConnectTimeout", <<Lit("timed out")>>))
    ELSE Raised(sent, Exc("ConnectError", <<Lit("[Errno 111] Connection refused")>>))

\* f"Error {response.status_code}: {response.text}"
ErrorMsgNoStatus(resp) == <<Lit("Error "), Lit(": "), Txt(resp.text)>>
ErrorMsg(resp) == <<Lit("Error "), Num(resp.status), Lit(": "), Txt(resp.text)>>

\* if response.status_code != 200
StatusFails(status) == status # 200

\* response.raise_for_status(): raises unless the status is 2xx
RaisesForStatus(status) == ~(200 <= status /\ status <= 299)
HTTPStatusMsg(resp) ==
    <<Lit(CASE resp.status \div 100 = 1 -> "Informational response '"
            [] resp.status \div 100 = 3 -> "Redirect response '"
            [] resp.status \div 100 = 4 -> "Client error '"
            [] resp.status \div 100 = 5 -> "Server error '"
            [] OTHER -> "Invalid status code '"),
      Num(resp.status), Lit("' for url "), Lit("For more information check: "),
      Num(resp.status)>>

\* the request, the status check "!= 200" and response.json()
SendCheck200Retry(req, reaction) ==
    IF reaction.kind # "response" THEN TransportError(<<req, req>>, reaction)
    ELSE IF StatusFails(reaction.status)
        THEN Raised(<<req, req>>, Exc("Exception", ErrorMsg(reaction)))
    ELSE ResponseJson(<<req>>, reaction)
SendCheck200(req, reaction) ==
    IF reaction.kind # "response" THEN TransportError(<<req>>, reaction)
    ELSE IF StatusFails(reaction.status)
        THEN Raised(<<req>>, Exc("Exception", ErrorMsg(reaction)))
    ELSE ResponseJson(<<req>>, reaction)

\* the request, response.raise_for_status() and response.json()
SendRaiseForStatus(req, reaction) ==
    IF reaction.kind # "response" THEN TransportError(<<req>>, reaction)
    ELSE IF RaisesForStatus(reaction.status)
        THEN Raised(<<req>>, Exc("HTTPStatusError", HTTPStatusMsg(reaction)))
    ELSE ResponseJson(<<req>>, reaction)

----------------------------------------------------------------------------
(* ScapeGraphClient: request bodies.  A body is a function from its keys.  *)

EmptyBody == [k \in {} |-> PyNone]
\* if value is not None: data[key] = value
OptNullPlaceholder(key, value) == key :> value
Opt(key, value) == IF IsNone(value) THEN EmptyBody ELSE key :> value

markdownify_data(website_url) == "website_url" :> PyStr(website_url)

smartscraper_data(user_prompt, website_url, number_of_scrolls, markdown_only) ==
    ("user_prompt" :> PyStr(user_prompt)) @@ ("website_url" :> PyStr(website_url))
        @@ Opt("number_of_scrolls", number_of_scrolls)
        @@ Opt("markdown_only", markdown_only)

searchscraper_data(user_prompt, num_results, number_of_scrolls) ==
    ("user_prompt" :> PyStr(user_prompt))
        @@ Opt("num_results", num_results)
        @@ Opt("number_of_scrolls", number_of_scrolls)

scrape_payload(website_url, render_heavy_js) ==
    ("website_url" :> PyStr(website_url)) @@ Opt("render_heavy_js", render_heavy_js)

sitemap_payload(website_url) == "website_url" :> PyStr(website_url)

agentic_payload(url, user_prompt, output_schema, steps, ai_extraction, persistent_session) ==
    ("url" :> PyStr(url))
        @@ Opt("user_prompt", user_prompt)
        @@ Opt("output_schema", output_schema)
        @@ Opt("steps", steps)
        @@ Opt("ai_extraction", ai_extraction)
        @@ Opt("persistent_session", persistent_session)

\* the extraction-mode branch of smartcrawler_initiate: the exception it
\* raises, or the mode's part of the body
ModeOk(data) == [raised |-> FALSE, exc |-> NoExc, data |-> data]
ModeError(msg) == [raised |-> TRUE, exc |-> Exc("ValueError", msg), data |-> EmptyBody]

crawl_mode_keeps_prompt(prompt, extraction_mode) ==
    IF extraction_mode = "markdown"
    THEN ModeOk(("markdown_only" :> PyBool(TRUE)) @@ Opt("prompt", prompt))
    ELSE IF extraction_mode = "ai" THEN
        IF IsNone(prompt)
        THEN ModeError(<<Lit("prompt is required when extraction_mode is 'ai'")>>)
        ELSE ModeOk("prompt" :> prompt)
    ELSE ModeError(<<Lit("Invalid extraction_mode: "), Lit(extraction_mode),
                     Lit(". Must be 'ai' or 'markdown'")>>)

crawl_mode(prompt, extraction_mode) ==
    IF extraction_mode = "markdown" THEN ModeOk("markdown_only" :> PyBool(TRUE))
    ELSE IF extraction_mode = "ai" THEN
        IF IsNone(prompt)
        THEN ModeError(<<Lit("prompt is required when extraction_mode is 'ai'")>>)
        ELSE ModeOk("prompt" :> prompt)
    ELSE ModeError(<<Lit("Invalid extraction_mode: "), Lit(extraction_mode),
                     Lit(". Must be 'ai' or 'markdown'")>>)

crawl_data(url, mode_data, depth, max_pages, same_domain_only) ==
    ("url" :> PyStr(url)) @@ mode_data
        @@ Opt("depth", depth)
        @@ Opt("max_pages", max_pages)
        @@ Opt("same_domain_only", same_domain_only)

----------------------------------------------------------------------------
(* ScapeGraphClient: the methods.  key is the SGAI-APIKEY header value,    *)
(* reaction is what the remote service does with the request.              *)

client_markdownify(key, website_url, reaction) ==
    SendCheck200(Request("POST", <<"/markdownify">>, key,
                         markdownify_data(website_url), DefaultTimeout), reaction)

client_smartscraper(key, user_prompt, website_url, number_of_scrolls, markdown_only, reaction) ==
    SendCheck200(Request("POST", <<"/smartscraper">>, key,
                         smartscraper_data(user_prompt, website_url,
                                           number_of_scrolls, markdown_only),
                         DefaultTimeout), reaction)

client_searchscraper(key, user_prompt, num_results, number_of_scrolls, reaction) ==
    SendCheck200(Request("POST", <<"/searchscraper">>, key,
                         searchscraper_data(user_prompt, num_results,
                                            number_of_scrolls),
                         DefaultTimeout), reaction)

client_scrape(key, website_url, render_heavy_js, reaction) ==
    SendRaiseForStatus(Request("POST", <<"/scrape">>, key,
                               scrape_payload(website_url, render_heavy_js),
                               DefaultTimeout), reaction)

client_sitemap(key, website_url, reaction) ==
    SendRaiseForStatus(Request("POST", <<"/sitemap">>, key,
                               sitemap_payload(website_url), DefaultTimeout),
                       reaction)

\* timeout_seconds overrides the client's timeout for this request only
client_agentic_scrapper(key, url, user_prompt, output_schema, steps, ai_extraction, persistent_session, timeout_seconds, reaction) ==
    SendRaiseForStatus(
        Request("POST", <<"/agentic-scrapper">>, key,
                agentic_payload(url, user_prompt, output_schema, steps,
                                ai_extraction, persistent_session),
                IF IsNone(timeout_seconds) THEN DefaultTimeout
                ELSE timeout_seconds.n),
        reaction)

client_smartcrawler_initiate(key, url, prompt, extraction_mode, depth, max_pages, same_domain_only, reaction) ==
    LET m == crawl_mode(prompt, extraction_mode)
    IN  IF m.raised THEN Raised(<<>>, m.exc)
        ELSE SendCheck200(
                Request("POST", <<"/crawl">>, key,
                        crawl_data(url, m.data, depth, max_pages,
                                   same_domain_only),
                        DefaultTimeout), reaction)

client_smartcrawler_fetch_results(key, request_id, reaction) ==
    SendCheck200(Request("GET", <<"/crawl", request_id>>, key, EmptyBody,
                         DefaultTimeout), reaction)

----------------------------------------------------------------------------
(* The tool functions of create_server.                                    *)

\* config = ctx.session_config; client = ScapeGraphClient(config)
\*   NoCtx     ctx is None (the parameter's default)
\*   NoConfig  the session carries no configuration: session_config is None
\*   EmptyKey  a configuration whose api_key is the empty string
\*   Key       a configuration with an API key
SetupOk(key) == [raised |-> FALSE, exc |-> NoExc, key |-> key]
SetupError(msg) == [raised |-> TRUE, exc |-> Exc("AttributeError", msg), key |-> ""]
Setup(ctx) ==
    CASE ctx = "NoCtx" ->
            SetupError(<<Lit("'NoneType' object has no attribute 'session_config'")>>)
      [] ctx = "NoConfig" ->
            SetupError(<<Lit("'NoneType' object has no attribute 'api_key'")>>)
      [] ctx = "EmptyKey" -> SetupOk("")
      [] ctx = "Key" -> SetupOk("sgai-key")

\* what a tool invocation ends in:
\*   result  return result            (the client method's return value)
\*   error   return {"error": ...}
\*   raise   an exception leaves the tool function
ErrorKey == <<"e", "r", "r", "o", "r">>
ErrorDict(msg) == PyDict(<< <<ErrorKey, PyMsg(msg)>> >>)
ReturnResult(val) == [kind |-> "result", value |-> val, exc |-> NoExc]
ReturnError(msg) == [kind |-> "error", value |-> ErrorDict(msg), exc |-> NoExc]
Propagate(exc) == [kind |-> "raise", value |-> PyNone, exc |-> exc]

\* what an invocation did: the requests sent, the client's life
\* ("init", one "request" per request, "close") and how it ended
Invocation(sent, events, outcome) ==
    [sent |-> sent, events |-> events, outcome |-> outcome]

Handler(cls, prefix) == [cls |-> cls, prefix |-> prefix]
\* except Exception as e
ExceptException == <<Handler("Exception", <<>>)>>
\* except httpx.HTTPError / except ValueError
ExceptHTTPErrorValueError ==
    <<Handler("HTTPError", <<>>), Handler("ValueError", <<>>)>>
\* except httpx.TimeoutException / except httpx.HTTPError / except ValueError
ExceptAgentic ==
    <<Handler("TimeoutException", <<Lit("Request timed out: ")>>),
      Handler("HTTPError", <<>>), Handler("ValueError", <<>>)>>

\* the first except clause that matches, 0 when none does
Catch(handlers, exc) ==
    IF \E n \in DOMAIN handlers : IsInstance(exc, handlers[n].cls)
    THEN CHOOSE n \in DOMAIN handlers :
            /\ IsInstance(exc, handlers[n].cls)
            /\ \A m \in 1..(n - 1) : ~IsInstance(exc, handlers[m].cls)
    ELSE 0

RequestEvents(sent) == [n \in DOMAIN sent |-> "request"]

\* try: result = client.<method>(...); client.close(); return result
\* except ...: client.close(); return {"error": str(e)}
TryCall(r, handlers) ==
    IF ~r.raised
    THEN Invocation(r.sent, <<"init">> \o RequestEvents(r.sent) \o <<"close">>,
                    ReturnResult(r.val))
    ELSE LET h == Catch(handlers, r.exc)
         IN  IF h = 0
             THEN Invocation(r.sent, <<"init">> \o RequestEvents(r.sent),
                             Propagate(r.exc))
             ELSE Invocation(r.sent,
                             <<"init">> \o RequestEvents(r.sent) \o <<"close">>,
                             ReturnError(handlers[h].prefix \o r.exc.msg))

\* the session set-up in front of the try statement
SetupFailed(setup) == Invocation(<<>>, <<>>, Propagate(setup.exc))

tool_markdownify(ctx, website_url, reaction) ==
    LET setup == Setup(ctx)
    IN  IF setup.raised THEN SetupFailed(setup)
        ELSE TryCall(client_markdownify(setup.key, website_url, reaction),
                     ExceptException)

tool_smartscraper(ctx, user_prompt, website_url, number_of_scrolls, markdown_only, reaction) ==
    LET setup == Setup(ctx)
    IN  IF setup.raised THEN SetupFailed(setup)
        ELSE TryCall(client_smartscraper(setup.key, user_prompt, website_url,
                                         number_of_scrolls, markdown_only,
                                         reaction),
                     ExceptException)

tool_searchscraper(ctx, user_prompt, num_results, number_of_scrolls, reaction) ==
    LET setup == Setup(ctx)
    IN  IF setup.raised THEN SetupFailed(setup)
        ELSE TryCall(client_searchscraper(setup.key, user_prompt, num_results,
                                          number_of_scrolls, reaction),
                     ExceptException)

tool_smartcrawler_initiate(ctx, url, prompt, extraction_mode, depth, max_pages, same_domain_only, reaction) ==
    LET setup == Setup(ctx)
    IN  IF setup.raised THEN SetupFailed(setup)
        ELSE TryCall(client_smartcrawler_initiate(setup.key, url, prompt,
                                                  extraction_mode, depth,
                                                  max_pages, same_domain_only,
                                                  reaction),
                     ExceptException)

tool_smartcrawler_fetch_results(ctx, request_id, reaction) ==
    LET setup == Setup(ctx)
    IN  IF setup.raised THEN SetupFailed(setup)
        ELSE TryCall(client_smartcrawler_fetch_results(setup.key, request_id,
                                                       reaction),
                     ExceptException)

tool_scrape(ctx, website_url, render_heavy_js, reaction) ==
    LET setup == Setup(ctx)
    IN  IF setup.raised THEN SetupFailed(setup)
        ELSE TryCall(client_scrape(setup.key, website_url, render_heavy_js,
                                   reaction),
                     ExceptHTTPErrorValueError)

tool_sitemap(ctx, website_url, reaction) ==
    LET setup == Setup(ctx)
    IN  IF setup.raised THEN SetupFailed(setup)
        ELSE TryCall(client_sitemap(setup.key, website_url, reaction),
                     ExceptHTTPErrorValueError)

\* agentic_scrapper: json.loads(steps) and json.loads(output_schema) stand
\* in a try whose only clause is "except json.JSONDecodeError"; any other
\* exception of json.loads leaves the tool function from there
DecodeRaises(arg) == IsStr(arg) /\ ~JsonLoads(arg.chars).ok /\ ~IsInstance(JsonLoads(arg.chars).exc, "JSONDecodeError")

\* agentic_scrapper: steps normalisation
normalize_steps(steps) ==
    IF IsList(steps) THEN steps
    ELSE IF IsStr(steps) THEN
        LET parsed == JsonLoads(steps.chars)
            parsed_steps == IF parsed.ok THEN parsed.val ELSE PyNone
        IN  IF IsList(parsed_steps) THEN parsed_steps ELSE PyList(<<steps>>)
    ELSE PyNone

\* agentic_scrapper: output_schema normalisation; err = TRUE is the early
\* return {"error": msg}
SchemaOk(val) == [err |-> FALSE, msg |-> <<>>, val |-> val]
SchemaError(msg) == [err |-> TRUE, msg |-> msg, val |-> PyNone]

normalize_schema(output_schema) ==
    IF IsDict(output_schema) THEN SchemaOk(output_schema)
    ELSE IF IsStr(output_schema) THEN
        LET parsed == JsonLoads(output_schema.chars)
        IN  IF parsed.ok THEN
                IF IsDict(parsed.val) THEN SchemaOk(parsed.val)
                ELSE SchemaError(<<Lit("output_schema must be a JSON object")>>)
            ELSE SchemaError(<<Lit("Invalid JSON for output_schema: ")>> \o parsed.exc.msg)
    ELSE SchemaOk(PyNone)

tool_agentic_scrapper(ctx, url, user_prompt, output_schema, steps, ai_extraction, persistent_session, timeout_seconds, reaction) ==
    LET setup == Setup(ctx)
        normalized_steps == normalize_steps(steps)
        schema == normalize_schema(output_schema)
    IN  IF setup.raised THEN SetupFailed(setup)
        ELSE IF DecodeRaises(steps) \/ DecodeRaises(output_schema)
            THEN Invocation(<<>>, <<"init">>,
                            Propagate(IF DecodeRaises(steps)
                                      THEN JsonLoads(steps.chars).exc
                                      ELSE JsonLoads(output_schema.chars).exc))
        ELSE IF schema.err
            THEN Invocation(<<>>, <<"init", "close">>, ReturnError(schema.msg))
        ELSE TryCall(client_agentic_scrapper(setup.key, url, user_prompt,
                                             schema.val, normalized_steps,
                                             ai_extraction, persistent_session,
                                             timeout_seconds, reaction),
                     ExceptAgentic)

----------------------------------------------------------------------------
(* The inputs of the invocations, and the state machine.                   *)

MaxInt == 1

Contexts == {"NoCtx", "NoConfig", "EmptyKey", "Key"}
\* markdownify, sitemap and smartcrawler_fetch_results declare ctx without
\* a default
ContextsRequired == Contexts \ {"NoCtx"}

Urls == {"https://example.com"}
UserPrompts == {"list headings"}
OptStrs == {PyNone, PyStr(""), PyStr("list headings")}
OptInts == {PyNone} \cup {PyInt(n) : n \in 0..MaxInt}
OptBools == {PyNone, PyBool(FALSE), PyBool(TRUE)}
\* the user_prompt of agentic_scrapper: left out, or given
OptPrompts == {PyNone, PyStr("list headings")}
\* the two flags of agentic_scrapper: left out, or given and falsy
OptFlags == {PyNone, PyBool(FALSE)}
OptTimeouts == {PyNone, PyFloat(30)}
ExtractionModes == {"ai", "markdown", "xml"}
JobId == "job-1"
RequestIds == {JobId, "job-9"}

\* ["a","b"]    go to page    [1, 2]    {"a":1}    "a"
TextArrayAB == <<"[", "\"", "a", "\"", ",", "\"", "b", "\"", "]">>
TextGoToPage == <<"g", "o", " ", "t", "o", " ", "p", "a", "g", "e">>
TextArray12 == <<"[", "1", ",", " ", "2", "]">>
TextObjectA1 == <<"{", "\"", "a", "\"", ":", "1", "}">>
TextQuotedA == <<"\"", "a", "\"">>
\* {"a":1 } x : a JSON object followed by more
TextExtraData == <<"{", "\"", "a", "\"", ":", "1", " ", "}", " ", "x">>
\* {"a":1,} : a comma in front of the closing brace
TextTrailingComma == <<"{", "\"", "a", "\"", ":", "1", ",", "}">>
\* six arrays deep and unclosed: deeper than the decoder goes
TextDeep == <<"[", "[", "[", "[", "[", "[">>
\* not json    null    the empty string
TextNotJson == <<"n", "o", "t", " ", "j", "s", "o", "n">>
TextNull == <<"n", "u", "l", "l">>
TextEmpty == <<>>

StepsInputs ==
    {PyNone, PyList(<<>>), PyList(<<PyText(<<"a">>), PyText(<<"b">>)>>),
     PyText(TextArrayAB), PyText(TextGoToPage), PyText(TextArray12),
     PyText(TextObjectA1), PyText(TextQuotedA), PyText(TextEmpty),
     PyText(TextDeep)}
SchemaInputs ==
    {PyNone, PyDict(<<>>), PyDict(<< <<<<"a">>, PyInt(1)>> >>),
     PyText(TextObjectA1), PyText(TextNotJson), PyText(TextArray12),
     PyText(TextNull), PyText(TextEmpty), PyText(TextDeep),
     PyText(TextExtraData), PyText(TextTrailingComma)}

NoArgs == [k \in {} |-> PyNone]

\* the record of an invocation; the reaction is kept only if a request
\* was sent
Call(tool, args, ctx, reaction, inv) ==
    [tool |-> tool, args |-> args, ctx |-> ctx,
     reaction |-> IF inv.sent = <<>> THEN NoReaction ELSE reaction,
     sent |-> inv.sent, events |-> inv.events, outcome |-> inv.outcome]

\* no invocation is in progress
Idle == Call("none", NoArgs, "Key", NoReaction,
             Invocation(<<>>, <<>>, ReturnResult(PyNone)))

Init ==
    /\ last = Idle
    /\ job = "none"
    /\ interpreter \in Interpreters

\* what the remote service answers to GET /crawl/{request_id} when it
\* answers in order: the job's status, or 404 for an id it does not know
Served(request_id) ==
    IF request_id = JobId /\ job # "none"
    THEN Response(200, BodyStatus(StatusText(job)))
    ELSE Response(404, BodyObject)
FetchReactions(request_id) ==
    {Served(request_id), Response(204, BodyEmpty), Response(404, BodyNotJson),
     TransportFailure("timeout"), TransportFailure("connect")}

markdownify ==
    /\ last.tool = "none"
    /\ \E ctx \in ContextsRequired, website_url \in Urls, reaction \in Reactions :
        /\ last' = Call("markdownify", [website_url |-> website_url], ctx, reaction,
                        tool_markdownify(ctx, website_url, reaction))
        /\ UNCHANGED <<job, interpreter>>

smartscraper ==
    /\ last.tool = "none"
    /\ \E ctx \in Contexts, user_prompt \in UserPrompts, website_url \in Urls,
       number_of_scrolls \in OptInts, markdown_only \in OptBools,
       reaction \in Reactions :
        /\ last' = Call("smartscraper",
                        [user_prompt |-> user_prompt, website_url |-> website_url,
                         number_of_scrolls |-> number_of_scrolls,
                         markdown_only |-> markdown_only],
                        ctx, reaction,
                        tool_smartscraper(ctx, user_prompt, website_url,
                                          number_of_scrolls, markdown_only,
                                          reaction))
        /\ UNCHANGED <<job, interpreter>>

searchscraper ==
    /\ last.tool = "none"
    /\ \E ctx \in Contexts, user_prompt \in UserPrompts, num_results \in OptInts,
       number_of_scrolls \in OptInts, reaction \in Reactions :
        /\ last' = Call("searchscraper",
                        [user_prompt |-> user_prompt, num_results |-> num_results,
                         number_of_scrolls |-> number_of_scrolls],
                        ctx, reaction,
                        tool_searchscraper(ctx, user_prompt, num_results,
                                           number_of_scrolls, reaction))
        /\ UNCHANGED <<job, interpreter>>

\* a crawl the remote service accepts (200) starts the job
smartcrawler_initiate ==
    /\ last.tool = "none"
    /\ \E ctx \in Contexts, url \in Urls, prompt \in OptStrs,
       extraction_mode \in ExtractionModes, depth \in OptInts,
       max_pages \in OptInts, same_domain_only \in OptBools,
       reaction \in Reactions :
        LET inv == tool_smartcrawler_initiate(ctx, url, prompt, extraction_mode,
                                              depth, max_pages, same_domain_only,
                                              reaction)
        IN  /\ last' = Call("smartcrawler_initiate",
                            [url |-> url, prompt |-> prompt,
                             extraction_mode |-> extraction_mode, depth |-> depth,
                             max_pages |-> max_pages,
                             same_domain_only |-> same_domain_only],
                            ctx, reaction, inv)
            /\ job' = IF inv.sent # <<>> /\ reaction.kind = "response"
                         /\ reaction.status = 200 /\ job = "none"
                      THEN "pending" ELSE job
            /\ UNCHANGED interpreter

smartcrawler_fetch_results ==
    /\ last.tool = "none"
    /\ \E ctx \in ContextsRequired, request_id \in RequestIds :
        \E reaction \in FetchReactions(request_id) :
            /\ last' = Call("smartcrawler_fetch_results",
                            [request_id |-> request_id], ctx, reaction,
                            tool_smartcrawler_fetch_results(ctx, request_id,
                                                            reaction))
            /\ UNCHANGED <<job, interpreter>>

scrape ==
    /\ last.tool = "none"
    /\ \E ctx \in Contexts, website_url \in Urls, render_heavy_js \in OptBools,
       reaction \in Reactions :
        /\ last' = Call("scrape",
                        [website_url |-> website_url,
                         render_heavy_js |-> render_heavy_js],
                        ctx, reaction,
                        tool_scrape(ctx, website_url, render_heavy_js, reaction))
        /\ UNCHANGED <<job, interpreter>>

sitemap ==
    /\ last.tool = "none"
    /\ \E ctx \in ContextsRequired, website_url \in Urls, reaction \in Reactions :
        /\ last' = Call("sitemap", [website_url |-> website_url], ctx, reaction,
                        tool_sitemap(ctx, website_url, reaction))
        /\ UNCHANGED <<job, interpreter>>

agentic_scrapper ==
    /\ last.tool = "none"
    /\ \E ctx \in Contexts, url \in Urls, user_prompt \in OptPrompts,
       output_schema \in SchemaInputs, steps \in StepsInputs,
       ai_extraction \in OptFlags, persistent_session \in OptFlags,
       timeout_seconds \in OptTimeouts, reaction \in Reactions :
        /\ last' = Call("agentic_scrapper",
                        [url |-> url, user_prompt |-> user_prompt,
                         output_schema |-> output_schema, steps |-> steps,
                         ai_extraction |-> ai_extraction,
                         persistent_session |-> persistent_session,
                         timeout_seconds |-> timeout_seconds],
                        ctx, reaction,
                        tool_agentic_scrapper(ctx, url, user_prompt, output_schema,
                                              steps, ai_extraction,
                                              persistent_session, timeout_seconds,
                                              reaction))
        /\ UNCHANGED <<job, interpreter>>

\* the host takes the invocation's result (or its exception); the server
\* keeps no record of the invocation
Deliver ==
    /\ last.tool # "none"
    /\ last' = Idle
    /\ UNCHANGED <<job, interpreter>>

\* the remote service works on the job, out of band
RemoteProgress ==
    /\ job \in {"pending", "running"}
    /\ job' = IF job = "pending" THEN "running" ELSE "completed"
    /\ UNCHANGED <<last, interpreter>>

Next ==
    \/ markdownify
    \/ smartscraper
    \/ searchscraper
    \/ smartcrawler_initiate
    \/ smartcrawler_fetch_results
    \/ scrape
    \/ sitemap
    \/ agentic_scrapper
    \/ Deliver
    \/ RemoteProgress

Spec == Init /\ [][Next]_vars

----------------------------------------------------------------------------
(* What the claims speak about. *)

Called == last.tool # "none"
Sent == last.sent # <<>>
Body == last.sent[1].body
Answered == last.reaction.kind = "response"
Is2xx(status) == 200 <= status /\ status <= 299

\* the value is {"error": <message>}
IsErrorValue(v) ==
    /\ IsDict(v)
    /\ Len(v.pairs) = 1
    /\ v.pairs[1][1] = ErrorKey
    /\ IsStr(v.pairs[1][2])
ReturnsError == last.outcome.kind = "error" /\ IsErrorValue(last.outcome.value)
ErrorMessage == last.outcome.value.pairs[1][2].msg
MessageHasStatus(msg, status) ==
    \E n \in DOMAIN msg : msg[n].t = "num" /\ msg[n].n = status
MessageSays(msg, phrase) ==
    \E n \in DOMAIN msg : msg[n].t = "lit" /\ msg[n].s = phrase

NoCredential == last.ctx \in {"NoCtx", "NoConfig", "EmptyKey"}
CrawlCall == last.tool = "smartcrawler_initiate"
AgenticCall == last.tool = "agentic_scrapper"
CrawlInvalid ==
    \/ last.args.extraction_mode \notin {"ai", "markdown"}
    \/ last.args.extraction_mode = "ai" /\ IsNone(last.args.prompt)
SchemaText == last.args.output_schema.chars
SchemaDecodesToObject == JsonLoads(SchemaText).ok /\ IsDict(JsonLoads(SchemaText).val)

\* a failure raised during the invocation: reading the session
\* configuration or constructing the client, local validation, the
\* transport, a non-2xx response, a response body that is no JSON
FailureRaised ==
    \/ last.ctx \in {"NoCtx", "NoConfig"}
    \/ CrawlCall /\ CrawlInvalid
    \/ AgenticCall /\ IsStr(last.args.output_schema) /\ ~SchemaDecodesToObject
    \/ last.reaction.kind \in {"timeout", "connect_timeout", "connect"}
    \/ Answered /\ ~Is2xx(last.reaction.status)
    \/ Answered /\ ~JsonLoads(last.reaction.text).ok

\* C1: every failure raised during a tool invocation (validation, remote,
\* timeout, or an exception while reading the session configuration,
\* constructing the client or parsing the response) ends in the tool
\* returning {error: message}; no exception leaves the tool function.
C1_EveryFailureReturnsError ==
    Called /\ FailureRaised => ReturnsError

\* C2: with no credential configured (no context, no session configuration,
\* or no API key in it) every tool call returns {error: "... not
\* initialized ..."} and sends no request.
C2_NoCredentialNotInitialized ==
    Called /\ NoCredential =>
        /\ ReturnsError
        /\ MessageSays(ErrorMessage, "not initialized")
        /\ ~Sent

\* C3: a response whose status is not 200 (201 and 204 included) is a
\* failure for every operation: the tool returns {error: ...}, never the
\* response body as its result.
C3_Non200IsFailure ==
    Called /\ Answered /\ last.reaction.status # 200 => ReturnsError

\* C4: a non-2xx response makes the tool return {error: message} with the
\* response's status code in the message; no exception leaves the tool.
C4_Non2xxErrorHasStatus ==
    Called /\ Answered /\ ~Is2xx(last.reaction.status) =>
        /\ ReturnsError
        /\ MessageHasStatus(ErrorMessage, last.reaction.status)

C4_Witness ==
    /\ last.tool \in {"scrape", "markdownify"}
    /\ Answered
    /\ last.reaction.status = 404
    /\ ReturnsError

\* C5: smartcrawler_initiate with an extraction_mode outside {"ai",
\* "markdown"}, or with mode "ai" and no prompt, sends no request and the
\* caller receives {error: ...}.
C5_InvalidCrawlRejectedLocally ==
    CrawlCall /\ CrawlInvalid => ~Sent /\ ReturnsError

\* C6: a crawl request sent in mode "ai" carries a prompt that is not the
\* empty string.
C6_AiCrawlPromptNonEmpty ==
    CrawlCall /\ Sent /\ last.args.extraction_mode = "ai" =>
        /\ "prompt" \in DOMAIN Body
        /\ Body["prompt"].s # ""

\* C7: a crawl request in mode "markdown" has markdown_only = true and no
\* prompt key, whether or not a prompt was supplied; in mode "ai" it has
\* the prompt and no markdown_only key.
C7_CrawlModesExclusive ==
    CrawlCall /\ Sent =>
        /\ last.args.extraction_mode = "markdown" =>
            /\ "markdown_only" \in DOMAIN Body
            /\ Body["markdown_only"] = PyBool(TRUE)
            /\ "prompt" \notin DOMAIN Body
        /\ last.args.extraction_mode = "ai" =>
            /\ "prompt" \in DOMAIN Body
            /\ Body["prompt"] = last.args.prompt
            /\ "markdown_only" \notin DOMAIN Body

C7_Witness ==
    /\ CrawlCall
    /\ Sent
    /\ last.args.extraction_mode = "markdown"
    /\ ~IsNone(last.args.prompt)

\* the parameters of each tool that are fields of its request body
RequiredFields ==
    CASE last.tool = "smartscraper" -> {"user_prompt", "website_url"}
      [] last.tool = "searchscraper" -> {"user_prompt"}
      [] last.tool \in {"markdownify", "scrape", "sitemap"} -> {"website_url"}
      [] last.tool \in {"agentic_scrapper", "smartcrawler_initiate"} -> {"url"}
      [] OTHER -> {}
OptionalFields ==
    CASE last.tool = "smartscraper" -> {"number_of_scrolls", "markdown_only"}
      [] last.tool = "searchscraper" -> {"num_results", "number_of_scrolls"}
      [] last.tool = "scrape" -> {"render_heavy_js"}
      [] last.tool = "agentic_scrapper" ->
            {"user_prompt", "output_schema", "steps", "ai_extraction",
             "persistent_session"}
      [] last.tool = "smartcrawler_initiate" ->
            {"prompt", "depth", "max_pages", "same_domain_only"}
      [] OTHER -> {}
Supplied(fields) == {k \in fields : ~IsNone(last.args[k])}

\* the value a supplied parameter has in the body: the two flexible
\* parameters of agentic_scrapper in their decoded form, a required string
\* as a string, any other as supplied
DecodedIfText(x) ==
    IF IsStr(x) /\ JsonLoads(x.chars).ok THEN JsonLoads(x.chars).val ELSE x
FieldValue(k) ==
    IF k \in RequiredFields THEN PyStr(last.args[k])
    ELSE IF AgenticCall /\ k = "output_schema" THEN DecodedIfText(last.args[k])
    ELSE IF AgenticCall /\ k = "steps" THEN
        IF IsList(DecodedIfText(last.args[k])) THEN DecodedIfText(last.args[k])
        ELSE PyList(<<last.args[k]>>)
    ELSE last.args[k]

\* C8 as stated: for every operation the body's keys are exactly the
\* required fields plus the optional fields that were supplied, and every
\* supplied optional field (false and 0 included) is there with its value.
C8_BodyKeysAsStated ==
    Called /\ Sent =>
        /\ DOMAIN Body = RequiredFields \cup Supplied(OptionalFields)
        /\ \A k \in Supplied(OptionalFields) : Body[k] = FieldValue(k)

\* in smartcrawler_initiate the mode decides about prompt and markdown_only
CrawlModeFields ==
    IF last.args.extraction_mode = "markdown" THEN {"markdown_only"} ELSE {"prompt"}
BodyFields ==
    IF CrawlCall
    THEN RequiredFields \cup CrawlModeFields
            \cup Supplied(OptionalFields \ {"prompt"})
    ELSE RequiredFields \cup Supplied(OptionalFields)

\* C8, amended: an optional field that was not supplied is absent from the
\* body (never null) and a supplied one (false and 0 included) is there
\* with its value, the body's keys being the required fields plus the
\* supplied optional ones -- except that smartcrawler_initiate puts its
\* mode into the body as markdown_only = true (mode "markdown", the prompt
\* left out even when supplied) or as the prompt (mode "ai").
BodyFieldValue(k) ==
    IF CrawlCall /\ k = "markdown_only" THEN PyBool(TRUE) ELSE FieldValue(k)
C8_BodyKeys ==
    Called /\ Sent =>
        /\ DOMAIN Body = BodyFields
        /\ \A k \in DOMAIN Body : ~IsNone(Body[k])
        /\ \A k \in BodyFields : Body[k] = BodyFieldValue(k)

C8_Witness ==
    /\ last.tool = "smartscraper"
    /\ Sent
    /\ last.args.number_of_scrolls = PyInt(0)
    /\ IsNone(last.args.markdown_only)
    /\ DOMAIN Body = {"user_prompt", "website_url", "number_of_scrolls"}

\* C9: in agentic_scrapper an output_schema string that decodes to a JSON
\* object is sent as that object; a string that is no JSON, or decodes to
\* something else, makes the tool return {error: ...} with no request sent.
C9_SchemaTextDecodedOrRejected ==
    AgenticCall /\ IsStr(last.args.output_schema) =>
        IF SchemaDecodesToObject
        THEN /\ Sent
             /\ "output_schema" \in DOMAIN Body
             /\ Body["output_schema"] = JsonLoads(SchemaText).val
        ELSE ~Sent /\ ReturnsError

\* C10: in agentic_scrapper the steps sent are a sequence of strings: a
\* list as supplied, a string that decodes to a JSON array as that array,
\* any other string as the one-element sequence holding it; no steps
\* supplied, no steps key.
StepsText == last.args.steps.chars
C10_StepsSequenceOfStrings ==
    AgenticCall /\ Sent =>
        IF IsNone(last.args.steps) THEN "steps" \notin DOMAIN Body
        ELSE /\ "steps" \in DOMAIN Body
             /\ IsList(Body["steps"])
             /\ \A n \in DOMAIN Body["steps"].items :
                    IsStr(Body["steps"].items[n])
             /\ IsList(last.args.steps) => Body["steps"] = last.args.steps
             /\ IsStr(last.args.steps) =>
                    IF JsonLoads(StepsText).ok /\ IsList(JsonLoads(StepsText).val)
                    THEN Body["steps"] = JsonLoads(StepsText).val
                    ELSE Body["steps"] = PyList(<<last.args.steps>>)

\* C11: an invocation issues at most one request, whatever the remote
\* service answers; a smartcrawler_fetch_results invocation that has a
\* client issues exactly one GET, and when the remote service answers with
\* a job that is not completed, the tool returns that answer as its result.
FetchCall == last.tool = "smartcrawler_fetch_results"
ClientConstructed == last.events # <<>>
NonTerminalAnswer ==
    \E st \in {"pending", "running"} :
        last.reaction = Response(200, BodyStatus(StatusText(st)))
C11_AtMostOneRequest ==
    Called =>
        /\ Len(last.sent) <= 1
        /\ FetchCall /\ ClientConstructed =>
              /\ Len(last.sent) = 1
              /\ last.sent[1].method = "GET"
              /\ NonTerminalAnswer =>
                    last.outcome = ReturnResult(JsonLoads(last.reaction.text).val)
C11_Witness ==
    /\ FetchCall
    /\ NonTerminalAnswer
    /\ Len(last.sent) = 1
    /\ last.outcome.kind = "result"

\* C13: an invocation that constructed a client closes it exactly once,
\* as the last thing it does with it, on every way out of the tool: the
\* client is constructed first, closed last, and closed only there, so no
\* request follows the close.
Closes == {n \in DOMAIN last.events : last.events[n] = "close"}
C13_ClientClosedOnce ==
    ClientConstructed =>
        /\ last.events[1] = "init"
        /\ Closes = {Len(last.events)}

====
